---------------------------- MODULE Spec2Model ----------------------------
(***************************************************************************)
(* Job lifecycle and coordination layer of the SAR micro-motion web app:   *)
(* the Job Store adapters (src/app/lib/db.ts, Vercel KV and Redis), the    *)
(* submission / dispatch handler (src/app/api/process/route.ts), the       *)
(* download handler (src/unnamed/part_009), the results reader             *)
(* (src/unnamed/part_008) and the cleanup sweeper                          *)
(* (src/app/api/results/[sessionId]/figures/[filename]/route.ts).          *)
(*                                                                         *)
(* Every await on the store is a separate step, so that concurrent request *)
(* handlers interleave exactly where the code yields.  Time is counted in  *)
(* whole seconds (the resolution of expiresAt and of the store's TTL).     *)
(***************************************************************************)
EXTENDS Integers, FiniteSets, Sequences, TLC

(***************************************************************************)
(* Bounds of the model.                                                    *)
(***************************************************************************)
\* number of distinct job ids randomUUID() can hand out
NumIds == 2
\* number of POST /api/process requests
NumProc == 2
\* number of clock advances while requests are handled
MaxTicks == 1
\* number of POST /api/process requests beside a sweep
NumSweepProc == 1
\* number of clock advances beside a sweep
MaxSweepTicks == 2
\* keys one SCAN call returns (count: 100 in the source, scaled down)
ScanCount == 1
\* concurrent POST /api/process requests where progress is checked
NumLiveProc == 1

(***************************************************************************)
(* Program constants.                                                      *)
(***************************************************************************)
\* db.ts:32,44,75  60 * 60 * 24 * 7
SEVEN_DAYS == 60 * 60 * 24 * 7
\* cleanup route:97,161  60 * 60 * 24 * 30
THIRTY_DAYS == 60 * 60 * 24 * 30

\* db.ts:7-12
JOB_STATUS ==
  [PENDING |-> "PENDING", PROCESSING |-> "PROCESSING",
   COMPLETED |-> "COMPLETED", FAILED |-> "FAILED"]

JobIds == 1 .. NumIds
Procs == 1 .. NumProc
SweepProcs == 1 .. NumSweepProc
LiveProcs == 1 .. NumLiveProc
\* the single POST /api/download request handler
Downloader == 0
Handlers == Procs \cup {Downloader}

\* JavaScript null (getJob / updateJob with no record) and a missing key
Null == [null |-> TRUE]
\* JavaScript undefined as the value of an object-typed property
Undefined == [undefined |-> TRUE]
\* a key without expiry in the store
NoTTL == -1
\* how far one clock advance goes while requests are handled: a second, or
\* to the end of a record's life
Advances == {1, SEVEN_DAYS}
\* ... and beside a sweep: a second, or to the end of the grace window of a
\* record created now
SweepAdvances == {1, SEVEN_DAYS + THIRTY_DAYS}

VARIABLES
  now,      \* Date.now() in seconds
  ticks,    \* clock advances so far
  variant,  \* which Job Store adapter is deployed: "kv" or "redis"
  vercel,   \* process.env.VERCEL / VERCEL_REGION is set
  store,    \* job:<id> -> stored JSON document, or Null
  ttlAt,    \* job:<id> -> second at which the store drops the key, or NoTTL
  used,     \* ids randomUUID() has produced
  known,    \* ids a client has: received in a response, or made up and sent
  pc,       \* handler -> <<phase, step>>
  loc,      \* handler -> locals (jobId, fileUrl, fileName, err)
  snap,     \* handler -> the job updateJob read (its local `job`)
  ret,      \* handler -> what its last createJob / updateJob returned
  resp,     \* handler -> HTTP response sent
  runs,     \* job id -> times the Processor was started for it
  blobs,    \* URLs of the objects put() has stored in the Blob Store
  sw        \* the cleanup handler

clockVars == <<now, ticks>>
envVars == <<variant, vercel>>
storeVars == <<store, ttlAt>>
idVars == <<used, known>>
handlerVars == <<pc, loc, snap, ret, resp, runs>>
vars == <<now, ticks, variant, vercel, store, ttlAt, used, known,
          pc, loc, snap, ret, resp, runs, blobs, sw>>

(***************************************************************************)
(* JavaScript objects are functions from property names to values.         *)
(***************************************************************************)
Has(o, k) == k \in DOMAIN o

\* { ...a, ...b }
Spread(a, b) ==
  [k \in (DOMAIN a) \cup (DOMAIN b) |-> IF k \in DOMAIN b THEN b[k] ELSE a[k]]

\* the empty object, and `...undefined`
EmptyObj == [k \in {} |-> TRUE]

\* JSON.stringify drops properties whose value is undefined (only metadata
\* can be: createJob(jobId) called without metadata)
JsonStringify(o) ==
  [k \in {x \in DOMAIN o : ~(x = "metadata" /\ o[x] = Undefined)} |-> o[k]]

\* JSON.parse of a stored document: the document is represented by the
\* properties it spells out, parsing yields the object with those properties
JsonParse(doc) == [k \in DOMAIN doc |-> doc[k]]

(***************************************************************************)
(* The store (Redis protocol in both adapters).                            *)
(***************************************************************************)
\* a key is visible until its expiry second
Live(j) == store[j] # Null /\ (ttlAt[j] = NoTTL \/ now < ttlAt[j])

\* GET key
StoreGet(j) == IF Live(j) THEN store[j] ELSE Null

\* keys the store has dropped by time t
Expired(t) == {j \in JobIds : ttlAt[j] # NoTTL /\ ttlAt[j] <= t}

(***************************************************************************)
(* db.ts                                                                   *)
(***************************************************************************)
\* createJob with the expiry left at the creation time
NewJobData_NoExpiry(jobId, metadata) ==
  [jobId |-> jobId,
   status |-> JOB_STATUS.PENDING,
   createdAt |-> now,
   updatedAt |-> now,
   expiresAt |-> now,
   metadata |-> metadata]

\* createJob that stores the job as already dispatched
NewJobData_Dispatched(jobId, metadata) ==
  [jobId |-> jobId,
   status |-> JOB_STATUS.PROCESSING,
   createdAt |-> now,
   updatedAt |-> now,
   expiresAt |-> now + SEVEN_DAYS,
   metadata |-> metadata]

\* the jobData object createJob builds (db.ts:31-41 and 151-161)
NewJobData(jobId, metadata) ==
  [jobId |-> jobId,
   status |-> JOB_STATUS.PENDING,
   createdAt |-> now,
   updatedAt |-> now,
   expiresAt |-> now + SEVEN_DAYS,
   metadata |-> metadata]

\* getJob that answers a key holding nothing with a new job object
GetJob_Default(j) ==
  IF StoreGet(j) = Null THEN NewJobData(j, Undefined) ELSE JsonParse(StoreGet(j))

\* getJob (db.ts:85-88 and 213-228): null when the key holds nothing
GetJob(j) == IF StoreGet(j) = Null THEN Null ELSE JsonParse(StoreGet(j))

\* the updatedJob object updateJob builds (db.ts:65-70 and 189-194)
UpdatedJob(job, status, data) ==
  Spread(Spread(job, [status |-> status, updatedAt |-> now]), data)

\* the ttl updateJob computes (db.ts:73-75 and 201-203)
UpdateTtl(updatedJob) ==
  IF Has(updatedJob, "expiresAt") /\ updatedJob.expiresAt # 0
  THEN (IF updatedJob.expiresAt - now > 0 THEN updatedJob.expiresAt - now ELSE 0)
  ELSE SEVEN_DAYS

(***************************************************************************)
(* Request inputs.                                                         *)
(***************************************************************************)
\* body.fileUrl / body.url values a client sends; "" is a missing property
Urls == {"", "https://blob/f.dat"}
\* body.fileName values; "" is a missing property
FileNames == {""}
\* messages of the errors the collaborators throw
UploadError == "upload failed"
FetchError == "fetch failed"
PythonError == "python failed"
DownloadError == "Failed to download file"
\* request.json() / request.formData() on a body that does not parse
ParseError == "Unexpected token"

\* `file-${jobId}` (route.ts:61)
DefaultFileName(jobId) == "file-" \o ToString(jobId)
\* `/api/results/${jobId}` (route.ts:123,165)
ResultsUrl(jobId) == "/api/results/" \o ToString(jobId)

\* randomUUID(): an id never produced before
FreshIds == IF JobIds \ used = {} THEN {}
            ELSE {CHOOSE j \in JobIds \ used : \A k \in JobIds \ used : j <= k}

NoLoc == [kind |-> "none", jobId |-> 0, fileUrl |-> "", fileName |-> "", err |-> ""]
NoResp == [code |-> 0]

(***************************************************************************)
(* Control flow of the handlers.  pc[h] = <<phase, step>>; the phases      *)
(* "create", "create2" run createJob, the phases "meta", "disp", "comp",   *)
(* "fail" run updateJob.                                                   *)
(***************************************************************************)
CreatePhases == {"create", "create2"}
UpdatePhases == {"meta", "disp", "comp", "fail"}

\* the metadata argument of the createJob call of a phase
CreateMetadata(h, phase) ==
  CASE loc[h].kind = "multipart" -> Undefined
    [] loc[h].kind = "json" ->
         [fileUrl |-> loc[h].fileUrl, fileName |-> loc[h].fileName]
    [] loc[h].kind = "download" /\ phase = "create" ->
         [sourceUrl |-> loc[h].fileUrl]
    [] OTHER ->
         [sourceUrl |-> loc[h].fileUrl, fileUrl |-> "https://blob/src.tif",
          fileName |-> "src.tif"]

\* the status argument of the updateJob call of a phase
UpdateStatus(phase) ==
  CASE phase = "meta" -> JOB_STATUS.PENDING
    [] phase = "disp" -> JOB_STATUS.PROCESSING
    [] phase = "comp" -> JOB_STATUS.COMPLETED
    [] OTHER -> JOB_STATUS.FAILED

\* the catch block storing FAILED without the error summary
UpdateData_NoError(h, phase) ==
  CASE phase = "meta" ->
         [metadata |-> [fileUrl |-> loc[h].fileUrl, fileName |-> loc[h].fileName]]
    [] phase = "comp" -> [resultsUrl |-> ResultsUrl(loc[h].jobId)]
    [] OTHER -> EmptyObj

\* the data argument of the updateJob call of a phase
UpdateData(h, phase) ==
  CASE phase = "meta" ->
         [metadata |-> [fileUrl |-> loc[h].fileUrl, fileName |-> loc[h].fileName]]
    [] phase = "disp" -> EmptyObj
    [] phase = "comp" -> [resultsUrl |-> ResultsUrl(loc[h].jobId)]
    [] OTHER -> [error |-> loc[h].err]

\* a handler whose catch block, having recorded a Processor failure, starts
\* the Processor again
After_Retry(h, phase) ==
  CASE phase = "create" /\ loc[h].kind = "multipart" -> <<<<"upload", "-">>, resp[h]>>
    [] phase = "create" /\ loc[h].kind = "json" -> <<<<"disp", "get">>, resp[h]>>
    [] phase = "create" /\ loc[h].kind = "download" -> <<<<"fetch", "-">>, resp[h]>>
    [] phase = "create2" ->
         <<<<"done", "-">>, [code |-> 200, jobId |-> loc[h].jobId]>>
    [] phase = "meta" -> <<<<"disp", "get">>, resp[h]>>
    [] phase = "disp" /\ vercel ->
         <<<<"wait", "-">>,
           [code |-> 200, jobId |-> loc[h].jobId, status |-> JOB_STATUS.PROCESSING]>>
    [] phase = "disp" /\ ~vercel -> <<<<"run", "-">>, resp[h]>>
    [] phase = "comp" /\ vercel -> <<<<"done", "-">>, resp[h]>>
    [] phase = "comp" /\ ~vercel ->
         <<<<"done", "-">>,
           [code |-> 200, jobId |-> loc[h].jobId, status |-> JOB_STATUS.COMPLETED]>>
    [] phase = "fail" /\ loc[h].err = PythonError -> <<<<"run", "-">>, resp[h]>>
    [] OTHER ->
         <<<<"done", "-">>, IF resp[h] = NoResp THEN [code |-> 500] ELSE resp[h]>>

\* what the handler does once the call of `phase` has returned, up to its
\* next await: <<next pc, response sent (or the one already sent)>>
After(h, phase) ==
  CASE phase = "create" /\ loc[h].kind = "multipart" -> <<<<"upload", "-">>, resp[h]>>
    [] phase = "create" /\ loc[h].kind = "json" -> <<<<"disp", "get">>, resp[h]>>
    [] phase = "create" /\ loc[h].kind = "download" -> <<<<"fetch", "-">>, resp[h]>>
    [] phase = "create2" ->
         <<<<"done", "-">>, [code |-> 200, jobId |-> loc[h].jobId]>>
    [] phase = "meta" -> <<<<"disp", "get">>, resp[h]>>
    [] phase = "disp" /\ vercel ->
         <<<<"wait", "-">>,
           [code |-> 200, jobId |-> loc[h].jobId, status |-> JOB_STATUS.PROCESSING]>>
    [] phase = "disp" /\ ~vercel -> <<<<"run", "-">>, resp[h]>>
    [] phase = "comp" /\ vercel -> <<<<"done", "-">>, resp[h]>>
    [] phase = "comp" /\ ~vercel ->
         <<<<"done", "-">>,
           [code |-> 200, jobId |-> loc[h].jobId, status |-> JOB_STATUS.COMPLETED]>>
    [] OTHER ->
         <<<<"done", "-">>, IF resp[h] = NoResp THEN [code |-> 500] ELSE resp[h]>>

\* a response that carries the job id makes it known to the client
Learn(r) == IF Has(r, "jobId") THEN known \cup {r.jobId} ELSE known

\* the locals of a handler that has ended are gone
Locals(h, nextPc) == IF nextPc[1] = "done" THEN [loc EXCEPT ![h] = NoLoc] ELSE loc

\* the call of `phase` returns value v to handler h
Return(h, phase, v) ==
  /\ pc' = [pc EXCEPT ![h] = After(h, phase)[1]]
  /\ resp' = [resp EXCEPT ![h] = After(h, phase)[2]]
  /\ known' = Learn(After(h, phase)[2])
  /\ ret' = [ret EXCEPT ![h] = v]
  /\ snap' = [snap EXCEPT ![h] = Null]
  /\ loc' = Locals(h, After(h, phase)[1])

\* an exception reaches the catch block of POST /api/process (route.ts:134)
\* with `message`; thrown from inside the catch block, or in the background
\* task's catch block, it ends the handler
Throw(h, phase, message) ==
  /\ snap' = [snap EXCEPT ![h] = Null]
  /\ ret' = [ret EXCEPT ![h] = Null]
  /\ IF phase = "fail"
     THEN /\ pc' = [pc EXCEPT ![h] = <<"done", "-">>]
          /\ resp' = [resp EXCEPT ![h] = IF resp[h] = NoResp THEN [code |-> 500]
                                         ELSE resp[h]]
          /\ loc' = [loc EXCEPT ![h] = NoLoc]
     ELSE /\ pc' = [pc EXCEPT ![h] = <<"fail", "get">>]
          /\ loc' = [loc EXCEPT ![h].err = message]
          /\ resp' = resp

(***************************************************************************)
(* createJob and updateJob, one step per store command.                    *)
(***************************************************************************)
\* createJob: kv.set(key, jobData, { ex }) (db.ts:44) or redis.set(key, json)
\* (db.ts:165), which leaves the key without expiry
CreateJobSet(h) ==
  /\ pc[h][1] \in CreatePhases /\ pc[h][2] = "set"
  /\ LET j == loc[h].jobId
         jobData == NewJobData(j, CreateMetadata(h, pc[h][1]))
     IN /\ store' = [store EXCEPT ![j] = JsonStringify(jobData)]
        /\ IF variant = "kv"
           THEN /\ ttlAt' = [ttlAt EXCEPT ![j] = now + SEVEN_DAYS]
                /\ Return(h, pc[h][1], jobData)
           ELSE /\ ttlAt' = [ttlAt EXCEPT ![j] = NoTTL]
                /\ pc' = [pc EXCEPT ![h] = <<pc[h][1], "expire">>]
                /\ ret' = [ret EXCEPT ![h] = jobData]
                /\ UNCHANGED <<resp, known, loc, snap>>
  /\ UNCHANGED <<clockVars, envVars, blobs, used, runs, sw>>

\* createJob: redis.expire(key, 7 days) (db.ts:166)
CreateJobExpire(h) ==
  /\ pc[h][1] \in CreatePhases /\ pc[h][2] = "expire"
  /\ LET j == loc[h].jobId
     IN ttlAt' = IF Live(j) THEN [ttlAt EXCEPT ![j] = now + SEVEN_DAYS] ELSE ttlAt
  /\ Return(h, pc[h][1], ret[h])
  /\ UNCHANGED <<clockVars, envVars, blobs, store, used, runs, sw>>

\* updateJob that goes on to write when there is no record, starting from
\* a new job object
UpdateJobGet_Upsert(h) ==
  /\ pc[h][1] \in UpdatePhases /\ pc[h][2] = "get"
  /\ pc' = [pc EXCEPT ![h] = <<pc[h][1], "set">>]
  /\ snap' = [snap EXCEPT ![h] =
               IF GetJob(loc[h].jobId) = Null THEN NewJobData(loc[h].jobId, Undefined)
               ELSE GetJob(loc[h].jobId)]
  /\ ret' = [ret EXCEPT ![h] = Null]
  /\ UNCHANGED <<resp, known, loc>>
  /\ UNCHANGED <<clockVars, envVars, blobs, storeVars, used, runs, sw>>

\* updateJob: const job = await getJob(jobId); if (!job) return null
\* (db.ts:58-62 and 182-186)
UpdateJobGet(h) ==
  /\ pc[h][1] \in UpdatePhases /\ pc[h][2] = "get"
  /\ IF GetJob(loc[h].jobId) = Null
     THEN Return(h, pc[h][1], Null)
     ELSE /\ pc' = [pc EXCEPT ![h] = <<pc[h][1], "set">>]
          /\ snap' = [snap EXCEPT ![h] = GetJob(loc[h].jobId)]
          /\ ret' = [ret EXCEPT ![h] = Null]
          /\ UNCHANGED <<resp, known, loc>>
  /\ UNCHANGED <<clockVars, envVars, blobs, storeVars, used, runs, sw>>

\* updateJob: kv.set(key, updatedJob, { ex: ttl }) (db.ts:65-79; the store
\* refuses ex = 0) or redis.set(key, json) (db.ts:189-198)
UpdateJobSet(h) ==
  /\ pc[h][1] \in UpdatePhases /\ pc[h][2] = "set"
  /\ LET j == loc[h].jobId
         phase == pc[h][1]
         updatedJob == UpdatedJob(snap[h], UpdateStatus(phase), UpdateData(h, phase))
     IN IF variant = "kv"
        THEN IF UpdateTtl(updatedJob) = 0
             THEN /\ Throw(h, phase, "ERR invalid expire time")
                  /\ UNCHANGED <<storeVars, known>>
             ELSE /\ store' = [store EXCEPT ![j] = JsonStringify(updatedJob)]
                  /\ ttlAt' = [ttlAt EXCEPT ![j] = now + UpdateTtl(updatedJob)]
                  /\ Return(h, phase, updatedJob)
        ELSE /\ store' = [store EXCEPT ![j] = JsonStringify(updatedJob)]
             /\ ttlAt' = [ttlAt EXCEPT ![j] = NoTTL]
             /\ pc' = [pc EXCEPT ![h] = <<phase, "expire">>]
             /\ ret' = [ret EXCEPT ![h] = updatedJob]
             /\ snap' = [snap EXCEPT ![h] = Null]
             /\ UNCHANGED <<resp, known, loc>>
  /\ UNCHANGED <<clockVars, envVars, blobs, used, runs, sw>>

\* updateJob: redis.expire(key, ttl) with the ttl computed after the set
\* (db.ts:201-207); EXPIRE with 0 seconds deletes the key
UpdateJobExpire(h) ==
  /\ pc[h][1] \in UpdatePhases /\ pc[h][2] = "expire"
  /\ LET j == loc[h].jobId
         ttl == UpdateTtl(ret[h])
     IN IF ~Live(j)
        THEN UNCHANGED storeVars
        ELSE IF ttl = 0
             THEN /\ store' = [store EXCEPT ![j] = Null]
                  /\ ttlAt' = [ttlAt EXCEPT ![j] = NoTTL]
             ELSE /\ ttlAt' = [ttlAt EXCEPT ![j] = now + ttl]
                  /\ store' = store
  /\ Return(h, pc[h][1], ret[h])
  /\ UNCHANGED <<clockVars, envVars, blobs, used, runs, sw>>

(***************************************************************************)
(* POST /api/process (route.ts:11-177)                                     *)
(***************************************************************************)
\* a multipart request: no file is answered 400 before anything is stored
\* (route.ts:21-34); otherwise createJob(jobId) with a new id.  A body that
\* request.formData() cannot parse throws into the catch block, with the
\* jobId of route.ts:13
ProcessMultipart(h) ==
  /\ h \in Procs /\ pc[h] = <<"idle", "-">>
  /\ \A k \in Procs : k < h => pc[k] # <<"idle", "-">>
  /\ \E body \in {"unparsable", "nofile", "file"} :
       IF body = "nofile"
       THEN /\ pc' = [pc EXCEPT ![h] = <<"done", "-">>]
            /\ resp' = [resp EXCEPT ![h] = [code |-> 400]]
            /\ UNCHANGED <<loc, used>>
       ELSE \E j \in FreshIds :
            /\ used' = used \cup {j}
            /\ resp' = resp
            /\ IF body = "unparsable"
               THEN /\ loc' = [loc EXCEPT ![h] =
                         [NoLoc EXCEPT !.kind = "multipart", !.jobId = j,
                                       !.err = ParseError]]
                    /\ pc' = [pc EXCEPT ![h] = <<"fail", "get">>]
               ELSE /\ loc' = [loc EXCEPT ![h] =
                         [NoLoc EXCEPT !.kind = "multipart", !.jobId = j]]
                    /\ pc' = [pc EXCEPT ![h] = <<"create", "set">>]
  /\ UNCHANGED <<clockVars, envVars, blobs, storeVars, known, snap, ret, runs, sw>>

\* a JSON request: no fileUrl is answered 400 (route.ts:50-57); otherwise
\* jobId = body.jobId || randomUUID(), fileName = body.fileName || file-<id>
\* and createJob(jobId, { fileUrl, fileName }) (route.ts:59-67).  body.jobId
\* is an id the client has: one from a response, or one of its own making
\* (bodyJobId, which it then has).  A body that request.json() cannot parse
\* throws into the catch block, with the jobId of route.ts:13
ProcessJson(h) ==
  /\ h \in Procs /\ pc[h] = <<"idle", "-">>
  /\ \A k \in Procs : k < h => pc[k] # <<"idle", "-">>
  /\ \E fileUrl \in Urls \cup {"unparsable"}, fileName \in FileNames :
       IF fileUrl = ""
       THEN /\ fileName = ""
            /\ pc' = [pc EXCEPT ![h] = <<"done", "-">>]
            /\ resp' = [resp EXCEPT ![h] = [code |-> 400]]
            /\ UNCHANGED <<loc, used, known>>
       ELSE IF fileUrl = "unparsable"
       THEN \E j \in FreshIds :
            /\ fileName = ""
            /\ used' = used \cup {j}
            /\ loc' = [loc EXCEPT ![h] =
                 [NoLoc EXCEPT !.kind = "json", !.jobId = j, !.err = ParseError]]
            /\ pc' = [pc EXCEPT ![h] = <<"fail", "get">>]
            /\ UNCHANGED <<resp, known>>
       ELSE \E j \in known \cup FreshIds, bodyJobId \in BOOLEAN :
            /\ j \in known => bodyJobId
            /\ used' = used \cup {j}
            /\ known' = IF bodyJobId THEN known \cup {j} ELSE known
            /\ loc' = [loc EXCEPT ![h] =
                 [NoLoc EXCEPT !.kind = "json", !.jobId = j, !.fileUrl = fileUrl,
                               !.fileName = IF fileName = "" THEN DefaultFileName(j)
                                            ELSE fileName]]
            /\ pc' = [pc EXCEPT ![h] = <<"create", "set">>]
            /\ resp' = resp
  /\ UNCHANGED <<clockVars, envVars, blobs, storeVars, snap, ret, runs, sw>>

\* uploadFile(file, file.name) (route.ts:37-39): the blob url and name, or
\* an exception that reaches the catch block
UploadFile(h) ==
  /\ pc[h] = <<"upload", "-">>
  /\ \E ok \in BOOLEAN :
       IF ok
       THEN /\ loc' = [loc EXCEPT ![h].fileUrl = "https://blob/upload.dat",
                                  ![h].fileName = "upload.dat"]
            /\ pc' = [pc EXCEPT ![h] = <<"meta", "get">>]
            /\ blobs' = blobs \cup {"https://blob/upload.dat"}
            /\ resp' = resp
            /\ UNCHANGED <<snap, ret>>
       ELSE Throw(h, "upload", UploadError) /\ blobs' = blobs
  /\ UNCHANGED <<clockVars, envVars, storeVars, idVars, runs, sw>>

\* processFileInBackground (route.ts:155-167): the stand-in for the
\* Processor call, then updateJob(COMPLETED)
BackgroundProcess(h) ==
  /\ pc[h] = <<"wait", "-">>
  /\ runs' = [runs EXCEPT ![loc[h].jobId] = @ + 1]
  /\ pc' = [pc EXCEPT ![h] = <<"comp", "get">>]
  /\ UNCHANGED <<clockVars, envVars, blobs, storeVars, idVars, loc, snap, ret, resp, sw>>

\* the local branch (route.ts:86-119): fetch the file, run the Python
\* script; either may throw, which reaches the catch block
LocalProcess(h) ==
  /\ pc[h] = <<"run", "-">>
  /\ \E outcome \in {"fetchError", "pythonError", "ok"} :
       /\ runs' = [runs EXCEPT ![loc[h].jobId] =
                     IF outcome = "fetchError" THEN @ ELSE @ + 1]
       /\ IF outcome = "ok"
          THEN /\ pc' = [pc EXCEPT ![h] = <<"comp", "get">>]
               /\ UNCHANGED <<loc, resp, snap, ret>>
          ELSE Throw(h, "run", IF outcome = "fetchError" THEN FetchError
                                ELSE PythonError)
  /\ UNCHANGED <<clockVars, envVars, blobs, storeVars, idVars, sw>>

\* the Python run never returns: the await of route.ts:115-119 has no
\* timeout, the handler stays where it is
ProcessorHangs(h) ==
  /\ pc[h] = <<"run", "-">>
  /\ runs' = [runs EXCEPT ![loc[h].jobId] = @ + 1]
  /\ pc' = [pc EXCEPT ![h] = <<"hung", "-">>]
  /\ UNCHANGED <<clockVars, envVars, blobs, storeVars, idVars, loc, snap, ret, resp, sw>>

(***************************************************************************)
(* POST /api/download (part_009:6-48)                                      *)
(***************************************************************************)
\* no url is answered 400 (part_009:9-16); otherwise a new id and
\* createJob(jobId, { sourceUrl: url }) (part_009:19-22).  A body that
\* request.json() cannot parse throws into the catch block (part_009:41-47)
DownloadStart ==
  /\ pc[Downloader] = <<"idle", "-">>
  /\ \E url \in {"", "unparsable", "https://src/src.tif"} :
       IF url \in {"", "unparsable"}
       THEN /\ pc' = [pc EXCEPT ![Downloader] = <<"done", "-">>]
            /\ resp' = [resp EXCEPT ![Downloader] =
                          [code |-> IF url = "" THEN 400 ELSE 500]]
            /\ UNCHANGED <<loc, used>>
       ELSE \E j \in FreshIds :
            /\ used' = used \cup {j}
            /\ loc' = [loc EXCEPT ![Downloader] =
                 [NoLoc EXCEPT !.kind = "download", !.jobId = j, !.fileUrl = url]]
            /\ pc' = [pc EXCEPT ![Downloader] = <<"create", "set">>]
            /\ resp' = resp
  /\ UNCHANGED <<clockVars, envVars, blobs, storeVars, known, snap, ret, runs, sw>>

\* downloadAndUpload(url) (part_009:25): on success the second createJob
\* follows, an exception is answered 500 by the catch block (part_009:41-47)
DownloadAndUpload ==
  /\ pc[Downloader] = <<"fetch", "-">>
  /\ \E ok \in BOOLEAN :
       IF ok
       THEN /\ pc' = [pc EXCEPT ![Downloader] = <<"create2", "set">>]
            /\ blobs' = blobs \cup {"https://blob/src.tif"}
            /\ resp' = resp
            /\ UNCHANGED <<loc, ret>>
       ELSE /\ pc' = [pc EXCEPT ![Downloader] = <<"done", "-">>]
            /\ resp' = [resp EXCEPT ![Downloader] = [code |-> 500]]
            /\ loc' = [loc EXCEPT ![Downloader] = NoLoc]
            /\ ret' = [ret EXCEPT ![Downloader] = Null]
            /\ blobs' = blobs
  /\ UNCHANGED <<clockVars, envVars, storeVars, idVars, snap, runs, sw>>

(***************************************************************************)
(* GET /api/results/:id (part_008:4-64)                                    *)
(***************************************************************************)
\* getJob returned null (part_008:21-26)
NotFoundResponse == [code |-> 404, error |-> "Results not found for this job"]

\* the job is still PENDING or PROCESSING (part_008:28-36), answered with
\* whatever else the record holds
ProgressResponse_WithRecord(j, job) ==
  Spread(job, [code |-> 200, success |-> TRUE, jobId |-> j,
               status |-> job.status, message |-> "Processing in progress"])

\* the job is still PENDING or PROCESSING (part_008:28-36)
ProgressResponse(j, job) ==
  [code |-> 200, success |-> TRUE, jobId |-> j, status |-> job.status,
   message |-> "Processing in progress"]

\* the job is FAILED (part_008:38-46), answered with a fixed error text
FailedResponse_FixedError(j, job) ==
  [code |-> 500, success |-> FALSE, jobId |-> j, status |-> job.status,
   error |-> "Processing failed"]

\* the job is FAILED (part_008:38-46): job.error || 'Processing failed'
FailedResponse(j, job) ==
  [code |-> 500, success |-> FALSE, jobId |-> j, status |-> job.status,
   error |-> IF Has(job, "error") /\ job.error # "" THEN job.error
             ELSE "Processing failed"]

\* any other status (part_008:48-56)
CompletedResponse(j, job) ==
  [code |-> 200, success |-> TRUE, jobId |-> j, status |-> job.status,
   results |-> IF Has(job, "metadata") /\ Has(job.metadata, "results")
               THEN job.metadata.results ELSE EmptyObj,
   visualizations |-> IF Has(job, "visualizations") THEN job.visualizations
                      ELSE EmptyObj,
   updatedAt |-> job.updatedAt]

\* the response for job id j in the current state
ResultsResponse(j) ==
  LET job == GetJob(j)
  IN IF job = Null THEN NotFoundResponse
     ELSE IF job.status \in {JOB_STATUS.PROCESSING, JOB_STATUS.PENDING}
          THEN ProgressResponse(j, job)
     ELSE IF job.status = JOB_STATUS.FAILED
          THEN FailedResponse(j, job)
     ELSE CompletedResponse(j, job)

\* a read changes nothing
GetResults(j) ==
  /\ ResultsResponse(j).code \in {200, 404, 500}
  /\ UNCHANGED vars

(***************************************************************************)
(* updateJob as one uninterrupted call, per adapter.                       *)
(***************************************************************************)
\* what a call leaves behind: the value returned or the exception thrown,
\* the document under the key and the second at which the store drops it
Outcome(returned, doc, dropAt) == [ret |-> returned, doc |-> doc, ttlAt |-> dropAt]

\* Vercel KV (db.ts:52-80): kv.set(key, updatedJob, { ex: ttl }); the store
\* refuses ex = 0 and the key keeps what it held
KvUpdateJob(j, status, data) ==
  IF GetJob(j) = Null THEN Outcome(Null, store[j], ttlAt[j])
  ELSE LET updatedJob == UpdatedJob(GetJob(j), status, data)
           ttl == UpdateTtl(updatedJob)
       IN IF ttl = 0
          THEN Outcome([throws |-> "ERR invalid expire time"], store[j], ttlAt[j])
          ELSE Outcome(updatedJob, JsonStringify(updatedJob), now + ttl)

\* Redis (db.ts:174-208): redis.set(key, json), then redis.expire(key, ttl);
\* EXPIRE with 0 seconds deletes the key
RedisUpdateJob(j, status, data) ==
  IF GetJob(j) = Null THEN Outcome(Null, store[j], ttlAt[j])
  ELSE LET updatedJob == UpdatedJob(GetJob(j), status, data)
           ttl == UpdateTtl(updatedJob)
       IN IF ttl = 0
          THEN Outcome(updatedJob, Null, NoTTL)
          ELSE Outcome(updatedJob, JsonStringify(updatedJob), now + ttl)

(***************************************************************************)
(* deleteJob (db.ts:93-96 and 233-238)                                     *)
(***************************************************************************)
\* DEL key: the key is gone whether or not it was there (the call returns
\* result === 1)
DeleteJob(j) ==
  /\ store' = [store EXCEPT ![j] = Null]
  /\ ttlAt' = [ttlAt EXCEPT ![j] = NoTTL]
  /\ UNCHANGED <<clockVars, envVars, blobs, idVars, handlerVars, sw>>

(***************************************************************************)
(* The environment: the clock, the store's expiry, deployments.            *)
(***************************************************************************)
\* time passes; the store drops the keys whose expiry has come
Tick(d, max) ==
  /\ ticks < max
  /\ ticks' = ticks + 1
  /\ now' = now + d
  /\ store' = [j \in JobIds |-> IF j \in Expired(now + d) THEN Null ELSE store[j]]
  /\ ttlAt' = [j \in JobIds |-> IF j \in Expired(now + d) THEN NoTTL ELSE ttlAt[j]]
  /\ UNCHANGED <<envVars, blobs, idVars, handlerVars, sw>>

(***************************************************************************)
(* GET cleanup (cleanup route:69-123 on Redis, 130-188 on Vercel KV)       *)
(***************************************************************************)
NoSweep == [pc |-> "idle", authHeader |-> FALSE, now |-> 0, cursor |-> {}, keys |-> {},
            checked |-> {}, keysToDelete |-> {}, resp |-> NoResp]

\* the keys a SCAN call returns: up to ScanCount of those not yet visited
ScanBatches(visited) ==
  LET rest == {j \in JobIds : Live(j)} \ visited
  IN {b \in SUBSET rest :
        Cardinality(b) = IF Cardinality(rest) < ScanCount THEN Cardinality(rest)
                         ELSE ScanCount}

\* the request arrives: the check of the authorization header (cleanup
\* route:72-75, 133-136) and const now (81, 142)
SweepStart ==
  /\ sw.pc = "idle"
  /\ \E authHeader \in BOOLEAN :
       IF vercel /\ ~authHeader
       THEN sw' = [NoSweep EXCEPT !.pc = "done", !.resp = [code |-> 401]]
       ELSE sw' = [sw EXCEPT !.pc = "scan", !.authHeader = authHeader, !.now = now]
  /\ UNCHANGED <<clockVars, envVars, blobs, storeVars, idVars, handlerVars>>

\* a scan whose loop ends after its first SCAN call
SweepScan_OneBatch ==
  /\ sw.pc = "scan"
  /\ \E batch \in ScanBatches(sw.cursor) :
       sw' = [sw EXCEPT !.cursor = sw.cursor \cup batch,
                        !.keys = sw.keys \cup batch,
                        !.pc = "check"]
  /\ UNCHANGED <<clockVars, envVars, blobs, storeVars, idVars, handlerVars>>

\* one SCAN call.  scanJobs (db.ts:243-260) repeats until the cursor is 0;
\* the KV cleanup (cleanup route:146-150) calls kv.scan once, with cursor 0
SweepScan ==
  /\ sw.pc = "scan"
  /\ \E batch \in ScanBatches(sw.cursor) :
       LET visited == sw.cursor \cup batch
           complete == {j \in JobIds : Live(j)} \subseteq visited
       IN sw' = [sw EXCEPT !.cursor = visited,
                           !.keys = sw.keys \cup batch,
                           !.pc = IF variant = "kv" \/ complete THEN "check"
                                  ELSE "scan"]
  /\ UNCHANGED <<clockVars, envVars, blobs, storeVars, idVars, handlerVars>>

\* the cleanup check that marks no key
SweepCheck_Never ==
  /\ sw.pc = "check"
  /\ sw.keys # sw.checked
  /\ \E key \in sw.keys \ sw.checked :
       sw' = [sw EXCEPT !.checked = @ \cup {key}]
  /\ UNCHANGED <<clockVars, envVars, blobs, storeVars, idVars, handlerVars>>

\* the body of the for loop for one key (cleanup route:92-104, 156-168);
\* a get or a parse that throws is caught inside the loop and the key is
\* passed over
SweepCheck ==
  /\ sw.pc = "check"
  /\ sw.keys # sw.checked
  /\ \E key \in sw.keys \ sw.checked, readOk \in BOOLEAN :
       LET job == GetJob(key)
           expired == /\ readOk
                      /\ job # Null
                      /\ Has(job, "expiresAt") /\ job.expiresAt # 0
                      /\ job.expiresAt < sw.now - THIRTY_DAYS
       IN sw' = [sw EXCEPT !.checked = @ \cup {key},
                           !.keysToDelete = IF expired THEN @ \cup {key} ELSE @]
  /\ UNCHANGED <<clockVars, envVars, blobs, storeVars, idVars, handlerVars>>

\* Promise.all(keysToDelete.map(del)) and the response (cleanup route:
\* 106-115, 171-180): every del is issued; one that rejects makes
\* Promise.all reject, which the outer catch answers with 500 (116-122,
\* 181-187)
SweepDelete ==
  /\ sw.pc = "check"
  /\ sw.keys = sw.checked
  /\ \E rejected \in SUBSET sw.keysToDelete :
       LET deleted == sw.keysToDelete \ rejected
       IN /\ store' = [j \in JobIds |-> IF j \in deleted THEN Null ELSE store[j]]
          /\ ttlAt' = [j \in JobIds |-> IF j \in deleted THEN NoTTL ELSE ttlAt[j]]
          /\ sw' = [NoSweep EXCEPT
                      !.pc = "done",
                      !.resp = IF rejected = {}
                               THEN [code |-> 200,
                                     deleted |-> Cardinality(sw.keysToDelete)]
                               ELSE [code |-> 500]]
  /\ UNCHANGED <<clockVars, envVars, blobs, idVars, handlerVars>>

\* the other adapter is deployed against the same store; the instances of
\* the old deployment are torn down where they stand
Redeploy ==
  /\ variant' = IF variant = "kv" THEN "redis" ELSE "kv"
  /\ pc' = [h \in Handlers |-> IF pc[h] = <<"idle", "-">> THEN pc[h] ELSE <<"done", "-">>]
  /\ loc' = [h \in Handlers |-> NoLoc]
  /\ snap' = [h \in Handlers |-> Null]
  /\ ret' = [h \in Handlers |-> Null]
  /\ sw' = IF sw.pc = "idle" THEN sw ELSE [NoSweep EXCEPT !.pc = "done", !.resp = sw.resp]
  /\ UNCHANGED <<clockVars, vercel, blobs, storeVars, idVars, resp, runs>>

(***************************************************************************)
(* The specification.                                                      *)
(***************************************************************************)
Init ==
  /\ now = 0
  /\ ticks = 0
  /\ variant \in {"kv", "redis"}
  /\ vercel \in BOOLEAN
  /\ store = [j \in JobIds |-> Null]
  /\ ttlAt = [j \in JobIds |-> NoTTL]
  /\ used = {}
  /\ known = {}
  /\ pc = [h \in Handlers |-> <<"idle", "-">>]
  /\ loc = [h \in Handlers |-> NoLoc]
  /\ snap = [h \in Handlers |-> Null]
  /\ ret = [h \in Handlers |-> Null]
  /\ resp = [h \in Handlers |-> NoResp]
  /\ runs = [j \in JobIds |-> 0]
  /\ blobs = {}
  /\ sw = NoSweep

\* the request handlers
Next ==
  \/ \E h \in Procs : ProcessMultipart(h)
  \/ \E h \in Procs : ProcessJson(h)
  \/ \E h \in Handlers : CreateJobSet(h)
  \/ \E h \in Handlers : CreateJobExpire(h)
  \/ \E h \in Procs : UploadFile(h)
  \/ \E h \in Procs : UpdateJobGet(h)
  \/ \E h \in Procs : UpdateJobSet(h)
  \/ \E h \in Procs : UpdateJobExpire(h)
  \/ \E h \in Procs : BackgroundProcess(h)
  \/ \E h \in Procs : LocalProcess(h)
  \/ DownloadStart
  \/ DownloadAndUpload
  \/ \E j \in JobIds : GetResults(j)
  \/ \E d \in Advances : Tick(d, MaxTicks)

Spec == Init /\ [][Next]_vars

\* the cleanup job beside the request handlers, over a span of time long
\* enough for records to pass the grace window; POST /api/process is
\* followed as far as its dispatch, its Processor run is left aside
SweepNext ==
  \/ \E h \in SweepProcs : ProcessJson(h)
  \/ \E h \in SweepProcs \cup {Downloader} : CreateJobSet(h)
  \/ \E h \in SweepProcs \cup {Downloader} : CreateJobExpire(h)
  \/ \E h \in SweepProcs : UpdateJobGet(h)
  \/ \E h \in SweepProcs : UpdateJobSet(h)
  \/ \E h \in SweepProcs : UpdateJobExpire(h)
  \/ DownloadStart
  \/ DownloadAndUpload
  \/ \E d \in SweepAdvances : Tick(d, MaxSweepTicks)
  \/ Redeploy
  \/ SweepStart
  \/ SweepScan
  \/ SweepCheck
  \/ SweepDelete

SweepSpec == Init /\ [][SweepNext]_vars

\* the steps of a POST /api/process handler once its request has arrived
HandlerStep(h) ==
  \/ CreateJobSet(h)
  \/ CreateJobExpire(h)
  \/ UploadFile(h)
  \/ UpdateJobGet(h)
  \/ UpdateJobSet(h)
  \/ UpdateJobExpire(h)
  \/ BackgroundProcess(h)
  \/ LocalProcess(h)
  \/ ProcessorHangs(h)

\* POST /api/process with a Processor that may never return
LiveNext ==
  \/ \E h \in LiveProcs : ProcessMultipart(h)
  \/ \E h \in LiveProcs : ProcessJson(h)
  \/ \E h \in LiveProcs : HandlerStep(h)
  \/ \E d \in Advances : Tick(d, MaxTicks)

\* the runtime runs every handler on: an await whose promise settles is
\* resumed, a Processor that was started returns, fails or hangs
LiveSpec ==
  Init /\ [][LiveNext]_vars /\ \A h \in LiveProcs : WF_vars(HandlerStep(h))

\* POST /api/process beside callers of deleteJob
DeleteNext ==
  \/ LiveNext
  \/ \E j \in JobIds : DeleteJob(j)

DeleteSpec == Init /\ [][DeleteNext]_vars

\* the scan of a cleanup request beside requests that create records and
\* a clock that lets records expire
ScanNext ==
  \/ \E h \in SweepProcs : ProcessJson(h)
  \/ \E h \in SweepProcs \cup {Downloader} : CreateJobSet(h)
  \/ \E h \in SweepProcs \cup {Downloader} : CreateJobExpire(h)
  \/ DownloadStart
  \/ DownloadAndUpload
  \/ \E d \in Advances : Tick(d, MaxTicks)
  \/ SweepStart
  \/ SweepScan

\* the store answers every SCAN call: the await of db.ts:254 settles
ScanSpec == Init /\ [][ScanNext]_vars /\ WF_vars(SweepScan)

\* the cron schedule calls the cleanup endpoint again (cleanup route:67-69,
\* 128-130)
SweepAgain ==
  /\ sw.pc = "done"
  /\ sw' = NoSweep
  /\ UNCHANGED <<clockVars, envVars, blobs, storeVars, idVars, handlerVars>>

\* a clock advance that takes every record written before it past the
\* grace window of the cleanup
Aging == SEVEN_DAYS + THIRTY_DAYS + 1

\* requests arrive, and their handlers run, before the long advance
Early == now < THIRTY_DAYS

\* this step of the cleanup meets no store failure: the read of the key
\* succeeds, every del is carried out
StoreAnswers ==
  /\ \A key \in sw'.checked \ sw.checked :
        (GetJob(key) # Null /\ Has(GetJob(key), "expiresAt")
           /\ GetJob(key).expiresAt # 0
           /\ GetJob(key).expiresAt < sw.now - THIRTY_DAYS) =>
              key \in sw'.keysToDelete
  /\ sw'.resp.code \in {0, 200}

\* the life of the records: requests whose handlers may stop at any point
\* (POST /api/process is followed as far as its dispatch), then time without
\* end, with the cleanup called again and again
LifeNext ==
  \/ Early /\ \E h \in LiveProcs : ProcessJson(h)
  \/ Early /\ \E h \in LiveProcs \cup {Downloader} : CreateJobSet(h)
  \/ Early /\ \E h \in LiveProcs \cup {Downloader} : CreateJobExpire(h)
  \/ Early /\ \E h \in LiveProcs : UpdateJobGet(h)
  \/ Early /\ \E h \in LiveProcs : UpdateJobSet(h)
  \/ Early /\ \E h \in LiveProcs : UpdateJobExpire(h)
  \/ Early /\ DownloadStart
  \/ Early /\ DownloadAndUpload
  \/ Tick(1, MaxTicks)
  \/ Tick(Aging, MaxTicks + 1)
  \/ SweepStart
  \/ SweepScan
  \/ SweepCheck /\ StoreAnswers
  \/ SweepDelete /\ StoreAnswers
  \/ SweepAgain

\* time passes, the schedule keeps calling the cleanup, calls with the
\* authorization header among them, and the store answers its commands; no
\* request handler is required to go on
LifeSpec ==
  /\ Init /\ [][LifeNext]_vars
  /\ WF_vars(Tick(Aging, MaxTicks + 1))
  /\ SF_vars(SweepStart /\ sw'.pc = "scan")
  /\ WF_vars(SweepScan)
  /\ WF_vars(SweepCheck /\ StoreAnswers)
  /\ WF_vars(SweepDelete /\ StoreAnswers)
  /\ WF_vars(SweepAgain)

(***************************************************************************)
(* Vocabulary of the properties.                                           *)
(***************************************************************************)
Terminal == {JOB_STATUS.COMPLETED, JOB_STATUS.FAILED}

\* the status of a job object, "none" for null
StatusOf(job) == IF Has(job, "status") THEN job.status ELSE "none"

\* handler h performs the store write of an updateJob call in this step
UpdateWrites(h) ==
  /\ pc[h][1] \in UpdatePhases /\ pc[h][2] = "set"
  /\ pc'[h] # pc[h] /\ variant' = variant
  /\ store'[loc[h].jobId] # store[loc[h].jobId]

\* handler h performs the store write of a createJob call in this step
CreateStores(h) ==
  /\ pc[h][1] \in CreatePhases /\ pc[h][2] = "set"
  /\ pc'[h] # pc[h] /\ variant' = variant

\* the outcome the Job Store contract names for a refused update
Conflict == [conflict |-> TRUE]

(***************************************************************************)
(* C1.  Status is monotonic: the stored status of a job only moves along   *)
(* PENDING -> PROCESSING -> {COMPLETED, FAILED}; no step re-enters         *)
(* PENDING, none reaches a terminal status from anything but PROCESSING,   *)
(* none changes the status of a COMPLETED or FAILED record.                *)
(***************************************************************************)
StatusStep(a, b) ==
  \/ a = b
  \/ b = "none"
  \/ a = "none"
  \/ a = JOB_STATUS.PENDING /\ b = JOB_STATUS.PROCESSING
  \/ a = JOB_STATUS.PROCESSING /\ b \in Terminal

C1_StatusMonotonic ==
  [][\A j \in JobIds : StatusStep(StatusOf(GetJob(j)), StatusOf(GetJob(j))')]_vars

(***************************************************************************)
(* C2.  Of two concurrent applications of a Processor outcome to one job,  *)
(* exactly one is accepted: an apply that read PROCESSING and finds the    *)
(* record terminal when it writes is refused as Conflict and leaves the    *)
(* record as it is.                                                        *)
(***************************************************************************)
SecondApply(h) ==
  /\ pc[h][1] \in {"comp", "fail"} /\ pc[h][2] = "set"
  /\ pc'[h] # pc[h] /\ variant' = variant
  /\ StatusOf(snap[h]) = JOB_STATUS.PROCESSING
  /\ StatusOf(GetJob(loc[h].jobId)) \in Terminal

C2_OneTerminalWrite ==
  [][\A h \in Procs : SecondApply(h) =>
        /\ store'[loc[h].jobId] = store[loc[h].jobId]
        /\ ret'[h] = Conflict]_vars

(***************************************************************************)
(* C3.  A transition attempted on a job that is COMPLETED or FAILED is     *)
(* rejected: the updateJob call that read a terminal record writes nothing *)
(* and returns Conflict.                                                   *)
(***************************************************************************)
OnTerminal(h) ==
  /\ pc[h][1] \in UpdatePhases /\ pc[h][2] = "set"
  /\ pc'[h] # pc[h] /\ variant' = variant
  /\ StatusOf(snap[h]) \in Terminal

C3_TerminalRejected ==
  [][\A h \in Procs : OnTerminal(h) => (store' = store /\ ret'[h] = Conflict)]_vars

(***************************************************************************)
(* C4.  Writes to one job record are linearizable: what an updateJob call  *)
(* stores is its update applied to the record as it is at the time of the  *)
(* write (the serial order in which it comes last), so that the effect of  *)
(* an updateJob that came in since its read is kept.                       *)
(***************************************************************************)
\* the record handler h read is still stored, possibly updated since
SameRecord(h) ==
  /\ GetJob(loc[h].jobId) # Null
  /\ GetJob(loc[h].jobId).createdAt = snap[h].createdAt

C4_Linearizable ==
  [][\A h \in Procs :
       (UpdateWrites(h) /\ SameRecord(h)) =>
          store'[loc[h].jobId] =
             JsonStringify(UpdatedJob(GetJob(loc[h].jobId), UpdateStatus(pc[h][1]),
                                      UpdateData(h, pc[h][1])))]_vars

(***************************************************************************)
(* C5.  The Processor runs at most once per job, whatever the number of    *)
(* POST /api/process requests for its id.                                  *)
(***************************************************************************)
C5_ProcessorOnce == \A j \in JobIds : runs[j] <= 1

(***************************************************************************)
(* C6.  createJob on an id that has a record fails with AlreadyExists and  *)
(* leaves the record unchanged.                                            *)
(***************************************************************************)
C6_CreateExisting ==
  [][\A h \in Handlers :
       (CreateStores(h) /\ GetJob(loc[h].jobId) # Null) =>
          store'[loc[h].jobId] = store[loc[h].jobId]]_vars

(***************************************************************************)
(* C7.  A successful createJob(jobId, metadata) stores and returns a       *)
(* record with status PENDING, createdAt = updatedAt = now, the given      *)
(* metadata, no error, no resultsUrl and expiresAt = now + 7 days, and     *)
(* getJob(jobId) right after the store write returns that record.          *)
(***************************************************************************)
\* job is the record createJob(jobId, metadata) is to produce at time t
FreshRecord(job, jobId, metadata, t) ==
  /\ DOMAIN job \subseteq {"jobId", "status", "createdAt", "updatedAt", "expiresAt",
                           "metadata"}
  /\ {"jobId", "status", "createdAt", "updatedAt", "expiresAt"} \subseteq DOMAIN job
  /\ job.jobId = jobId
  /\ job.status = "PENDING"
  /\ job.createdAt = t /\ job.updatedAt = t
  /\ job.expiresAt = t + 604800
  /\ IF metadata = Undefined THEN ~Has(job, "metadata")
     ELSE Has(job, "metadata") /\ job.metadata = metadata

C7_CreateJob ==
  [][\A h \in Handlers, j \in JobIds :
       (CreateStores(h) /\ loc[h].jobId = j) =>
          /\ FreshRecord(GetJob(j)', j, CreateMetadata(h, pc[h][1]), now)
          /\ JsonParse(JsonStringify(ret'[h])) = GetJob(j)'
          /\ ttlAt'[j] \in {NoTTL, now + 604800}]_vars

\* a createJob call has returned and its record is the one stored
C7_Witness ==
  \E h \in Handlers :
     /\ pc[h][1] \in {"upload", "fetch", "disp"}
     /\ ret[h] # Null
     /\ GetJob(loc[h].jobId) # Null
     /\ GetJob(loc[h].jobId) = JsonParse(JsonStringify(ret[h]))
     /\ GetJob(loc[h].jobId).expiresAt = GetJob(loc[h].jobId).createdAt + 604800
     /\ now > 0

(***************************************************************************)
(* C8.  As claimed: for every valid submission, a read of the job right    *)
(* after the submission request has returned yields PENDING.               *)
(***************************************************************************)
\* handler h answers its request with success in this step
Answers(h) == resp[h] = NoResp /\ resp'[h] # NoResp /\ resp'[h].code = 200

\* the status GET /api/results/:id reports for job id j
ReadStatus(j) ==
  IF Has(ResultsResponse(j), "status") THEN ResultsResponse(j).status ELSE "none"

ReadResultRef(j) ==
  IF GetJob(j) # Null /\ Has(GetJob(j), "resultsUrl") THEN GetJob(j).resultsUrl ELSE ""

C9_CompletedStays ==
  [][\A j \in JobIds :
       (ReadStatus(j) = "COMPLETED" /\ GetJob(j)' # Null) =>
          /\ ReadStatus(j)' = "COMPLETED"
          /\ ReadResultRef(j)' = ReadResultRef(j)]_vars

(***************************************************************************)
(* C10.  When a sweep completes, no record that was in the store before    *)
(* the sweep began and whose expiresAt lies more than the 30-day grace     *)
(* window before the sweep's now remains in the Job Store, however many    *)
(* keys the store holds (more than one scan batch included).  Keys whose   *)
(* read failed are left aside: the sweep is to pass those over.            *)
(***************************************************************************)
\* this step is the sweep's deletion and its success response
SweepCompletes == sw.pc = "check" /\ sw'.pc = "done" /\ sw'.resp.code = 200

\* job id j holds a record written before the sweep began whose expiresAt
\* is past the grace window at the sweep's now
Stale(j, sweepNow) ==
  /\ Live(j)
  /\ Has(store[j], "expiresAt")
  /\ store[j].expiresAt < sweepNow - 2592000
  /\ store[j].updatedAt < sweepNow

\* the sweep read the key of job id j and did not mark it: for a record
\* that is stale, its get or parse failed and the loop passed it over
PassedOver(j) == j \in sw.checked \ sw.keysToDelete

C10_SweepRemovesStale ==
  [][\A j \in JobIds, t \in {sw.now} :
       (SweepCompletes /\ Stale(j, t) /\ ~PassedOver(j)) => ~Stale(j, t)']_vars

(***************************************************************************)
(* C11.  A sweep never deletes a record whose expiresAt is not more than   *)
(* 30 days before the sweep's now: a record with a future expiresAt, or    *)
(* one expired by 30 days or less, is in the store with the same content   *)
(* after the sweep's deletion as before it.                                *)
(***************************************************************************)
\* this step is the sweep's deletion, whatever its response
SweepEnds ==
  /\ sw.pc = "check" /\ sw.keys = sw.checked
  /\ sw'.pc = "done" /\ variant' = variant

\* job id j holds a record that is within the grace window at sweepNow
Kept(j, sweepNow) ==
  /\ Live(j)
  /\ Has(store[j], "expiresAt")
  /\ store[j].expiresAt >= sweepNow - 2592000

C11_SweepKeepsFresh ==
  [][\A j \in JobIds :
       (SweepEnds /\ Kept(j, sw.now)) => store'[j] = store[j]]_vars

(***************************************************************************)
(* C12.  A failure on one key (reading, parsing or deleting it) never      *)
(* aborts the sweep: the sweep still reports success.                      *)
(***************************************************************************)
C12_SweepReportsSuccess ==
  [][SweepEnds => sw'.resp.code = 200]_vars

(***************************************************************************)
(* C13.  The count a sweep returns is the number of records this sweep     *)
(* removed from the store; a key that was gone when its delete ran is not  *)
(* counted.                                                                *)
(***************************************************************************)
C13_SweepCount ==
  [][SweepCompletes =>
       sw'.resp.deleted =
          Cardinality({j \in JobIds : store[j] # Null /\ store'[j] = Null})]_vars

(***************************************************************************)
(* C14.  No cleanup request without the authorization header gets past     *)
(* the trusted-caller check, in any deployment environment: it is answered *)
(* 401 and never scans or deletes.                                         *)
(***************************************************************************)
C14_CleanupAuthorized == sw.pc \in {"scan", "check"} => sw.authHeader

(***************************************************************************)
(* C15.  expiresAt is present in every stored record and no operation on   *)
(* a job id that has a record changes it: not updateJob, not a repeated    *)
(* createJob.                                                              *)
(***************************************************************************)
C15_ExpiresAtFixed ==
  [][\A j \in JobIds :
       (GetJob(j) # Null /\ GetJob(j)' # Null) =>
          /\ Has(GetJob(j)', "expiresAt")
          /\ GetJob(j)'.expiresAt = GetJob(j).expiresAt]_vars

(***************************************************************************)
(* C16.  In every reachable state a stored record has an error field only  *)
(* if its status is FAILED.                                                *)
(***************************************************************************)
C16_ErrorOnlyFailed ==
  \A j \in JobIds :
     (GetJob(j) # Null /\ Has(GetJob(j), "error")) =>
        GetJob(j).status = JOB_STATUS.FAILED

(***************************************************************************)
(* C17.  In every reachable state a stored record has a resultsUrl or      *)
(* visualizations only if its status is COMPLETED.                         *)
(***************************************************************************)
C17_ResultOnlyCompleted ==
  \A j \in JobIds :
     (GetJob(j) # Null /\ (Has(GetJob(j), "resultsUrl") \/
                           Has(GetJob(j), "visualizations"))) =>
        GetJob(j).status = JOB_STATUS.COMPLETED

(***************************************************************************)
(* C18.  When the Processor fails, the handler's outcome for the job is    *)
(* FAILED with a non-empty error summary on the record: the write the      *)
(* handler makes after the failure stores status FAILED and the error,     *)
(* and the handler never goes on to store COMPLETED.                       *)
(***************************************************************************)
\* the Processor run of handler h has failed and h is in its catch block
ProcessorFailed(h) == pc[h][1] = "fail" /\ loc[h].err = PythonError

C18_FailureRecorded ==
  [][\A h \in Procs, j \in JobIds :
       (ProcessorFailed(h) /\ loc[h].jobId = j) =>
          /\ pc'[h][1] \in {"fail", "done"}
          /\ UpdateWrites(h) =>
               /\ GetJob(j)' # Null
               /\ StatusOf(GetJob(j)') = JOB_STATUS.FAILED
               /\ Has(GetJob(j)', "error")
               /\ GetJob(j)'.error = PythonError
               /\ GetJob(j)'.error # ""]_vars

\* a Processor failure has been recorded: the handler has answered 500 and
\* the record reads FAILED with the error
C18_Witness ==
  \E h \in Procs, j \in JobIds :
     /\ pc[h] = <<"done", "-">>
     /\ resp[h].code = 500
     /\ GetJob(j) # Null
     /\ StatusOf(GetJob(j)) = JOB_STATUS.FAILED
     /\ Has(GetJob(j), "error") /\ GetJob(j).error = PythonError
     /\ runs[j] > 0

(***************************************************************************)
(* C19.  Every job that enters PROCESSING eventually reaches COMPLETED or  *)
(* FAILED, also when the Processor never returns.                          *)
(***************************************************************************)
C19_EventuallyTerminal ==
  \A j \in JobIds :
     (StatusOf(GetJob(j)) = JOB_STATUS.PROCESSING) ~> (StatusOf(GetJob(j)) \in Terminal)

(***************************************************************************)
(* C20.  A request rejected for missing or malformed input (no file, no    *)
(* fileUrl, no url, a body that does not parse) is answered with a 4xx     *)
(* response and is never recorded as a job: the store is as it was.        *)
(***************************************************************************)
\* handler h answers in this step a request it rejects for its input: it
\* answers before doing anything else, or its body did not parse
RejectsInput(h) ==
  /\ resp[h] = NoResp /\ resp'[h] # NoResp
  /\ pc[h] = <<"idle", "-">> \/ loc[h].err = ParseError

C20_RejectedNotRecorded ==
  [][\A h \in Handlers :
       RejectsInput(h) => (resp'[h].code \in 400 .. 499 /\ store' = store)]_vars

(***************************************************************************)
(* C21.  In every reachable state a job record exists only if its input    *)
(* was stored or validated successfully: while a handler has yet to store  *)
(* the upload or to fetch the source of its job, there is no record for    *)
(* that job.                                                               *)
(***************************************************************************)
\* handler h has not stored the input of its job yet: uploadFile or
\* downloadAndUpload is still to return
InputPending(h) == pc[h][1] \in {"upload", "fetch"}

C21_InputBeforeRecord ==
  \A h \in Handlers :
     InputPending(h) => GetJob(loc[h].jobId) = Null

(***************************************************************************)
(* C22.  Whenever a record is COMPLETED, its result reference names a      *)
(* blob that was stored in the Blob Store: the result is uploaded before   *)
(* the record is written.                                                  *)
(***************************************************************************)
C22_ResultInBlobStore ==
  \A j \in JobIds :
     (GetJob(j) # Null /\ StatusOf(GetJob(j)) = JOB_STATUS.COMPLETED) =>
        /\ Has(GetJob(j), "resultsUrl")
        /\ GetJob(j).resultsUrl \in blobs

(***************************************************************************)
(* C23.  For a job that was dispatched synchronously and whose Processor   *)
(* run returned the result R, GET /api/results/:id returns status          *)
(* COMPLETED with a result equal to R, not an empty or different one.      *)
(***************************************************************************)
\* the result the Processor writes to resultPath (route.ts:103, 111) for a
\* job: the detection count and the ship entries
ProcessorResult(j) == [numShipsDetected |-> 1, ships |-> <<[shipId |-> 0]>>]

C23_ResultReturned ==
  \A j \in JobIds :
     (~vercel /\ runs[j] > 0 /\ GetJob(j) # Null
        /\ StatusOf(GetJob(j)) = JOB_STATUS.COMPLETED) =>
           /\ ResultsResponse(j).status = JOB_STATUS.COMPLETED
           /\ ResultsResponse(j).results = ProcessorResult(j)

(***************************************************************************)
(* C24.  GET /api/results/:id for a job id with no record in the Job       *)
(* Store is answered 404 and carries no record and no status, also when    *)
(* the id had a record that the store's TTL has deleted.                   *)
(***************************************************************************)
\* the properties of a response that come from a job record
RecordFields == {"jobId", "status", "results", "visualizations", "updatedAt"}

C24_NotFound ==
  \A j \in JobIds :
     StoreGet(j) = Null =>
        /\ ResultsResponse(j).code = 404
        /\ DOMAIN ResultsResponse(j) \cap RecordFields = {}

\* a client was given the id of a job whose record the TTL has since
\* deleted, and a read of it is answered 404
C24_Witness ==
  \E h \in Handlers, j \in known :
     /\ resp[h].code = 200 /\ resp[h].jobId = j
     /\ now >= SEVEN_DAYS
     /\ store[j] = Null
     /\ ResultsResponse(j).code = 404

(***************************************************************************)
(* C25.  GET /api/results/:id for a job in PENDING or PROCESSING returns   *)
(* the stored status only: the response carries no result, no              *)
(* visualizations and no error, whatever the record holds.                 *)
(***************************************************************************)
C25_ProgressStatusOnly ==
  \A j \in JobIds :
     (GetJob(j) # Null
        /\ StatusOf(GetJob(j)) \in {JOB_STATUS.PENDING, JOB_STATUS.PROCESSING}) =>
           /\ ResultsResponse(j).code = 200
           /\ ResultsResponse(j).status = GetJob(j).status
           /\ DOMAIN ResultsResponse(j)
                 \cap {"results", "visualizations", "resultsUrl", "error"} = {}

\* a record in PROCESSING that holds an error or a result reference is
\* read: the response gives the status and neither of them
C25_Witness ==
  \E j \in JobIds :
     /\ GetJob(j) # Null
     /\ StatusOf(GetJob(j)) = JOB_STATUS.PROCESSING
     /\ Has(GetJob(j), "error") \/ Has(GetJob(j), "resultsUrl")
     /\ ResultsResponse(j).status = JOB_STATUS.PROCESSING
     /\ ~Has(ResultsResponse(j), "error")

(***************************************************************************)
(* C26.  GET /api/results/:id for a job in FAILED returns status FAILED    *)
(* together with the error summary stored on the record, and no result     *)
(* payload.                                                                *)
(***************************************************************************)
C26_FailedWithError ==
  \A j \in JobIds :
     (GetJob(j) # Null /\ StatusOf(GetJob(j)) = JOB_STATUS.FAILED) =>
        /\ ResultsResponse(j).status = JOB_STATUS.FAILED
        /\ Has(GetJob(j), "error")
        /\ ResultsResponse(j).error = GetJob(j).error
        /\ DOMAIN ResultsResponse(j)
              \cap {"results", "visualizations", "resultsUrl"} = {}

\* a record that failed after a result reference was stored on it is read:
\* the response gives FAILED and the stored error
C26_Witness ==
  \E j \in JobIds :
     /\ GetJob(j) # Null
     /\ StatusOf(GetJob(j)) = JOB_STATUS.FAILED
     /\ Has(GetJob(j), "resultsUrl")
     /\ ResultsResponse(j).code = 500
     /\ ResultsResponse(j).error = GetJob(j).error

(***************************************************************************)
(* C27.  No automatic retry: within one submission the Processor is        *)
(* started at most once, and a submission whose job it has recorded as     *)
(* FAILED neither dispatches the job again nor writes another status.      *)
(* Every start of the Processor is the step of a handler that leaves its   *)
(* dispatch point, a handler past that point never returns to it, and a    *)
(* handler in its catch block writes nothing but FAILED.                   *)
(***************************************************************************)
\* handler h starts the Processor in this step
StartsProcessor(h) ==
  /\ pc[h][1] \in {"run", "wait"} /\ pc'[h][1] \notin {"run", "wait"}
  /\ variant' = variant

C27_NoRetry ==
  [][/\ \A j \in JobIds :
          runs'[j] # runs[j] =>
             /\ runs'[j] = runs[j] + 1
             /\ \E h \in Procs : StartsProcessor(h) /\ loc[h].jobId = j
     /\ \A h \in Procs, j \in JobIds :
          /\ pc[h][1] \in {"comp", "hung", "fail", "done"} =>
                pc'[h][1] \in {"comp", "hung", "fail", "done"}
          /\ (pc[h][1] = "fail" /\ loc[h].jobId = j) =>
                /\ pc'[h][1] \in {"fail", "done"}
                /\ UpdateWrites(h) =>
                      StatusOf(GetJob(j)') \in {JOB_STATUS.FAILED, "none"}]_vars

\* a single submission has ended in failure: its Processor ran once, the
\* record reads FAILED and no other request was made
C27_Witness ==
  \E h \in Procs, j \in JobIds :
     /\ pc[h] = <<"done", "-">> /\ resp[h].code = 500
     /\ \A k \in Handlers \ {h} : pc[k] = <<"idle", "-">>
     /\ runs[j] = 1
     /\ StatusOf(GetJob(j)) = JOB_STATUS.FAILED
     /\ GetJob(j).error = PythonError

(***************************************************************************)
(* C28.  updateJob on a job id with no record returns null, writes         *)
(* nothing, and leaves the Job Store without a record for that id.         *)
(***************************************************************************)
\* handler h runs the read of an updateJob call in this step and finds no
\* record for job id j
UpdateFindsNone(h, j) ==
  /\ pc[h][1] \in UpdatePhases /\ pc[h][2] = "get"
  /\ pc'[h] # pc[h] /\ variant' = variant
  /\ loc[h].jobId = j
  /\ GetJob(j) = Null

C28_UpdateMissing ==
  [][\A h \in Procs, j \in JobIds :
       UpdateFindsNone(h, j) =>
          /\ ret'[h] = Null
          /\ pc'[h][2] \notin {"set", "expire"}
          /\ store' = store /\ ttlAt' = ttlAt
          /\ GetJob(j)' = Null]_vars

\* an updateJob call found no record: the body of a request did not parse,
\* its catch block called updateJob with the id of the request, for which
\* nothing was ever stored, and the store is still empty
C28_Witness ==
  \E h \in Procs :
     /\ pc[h] = <<"done", "-">> /\ resp[h].code = 500
     /\ ret[h] = Null
     /\ used # {} /\ now = 0
     /\ \A j \in JobIds : store[j] = Null

(***************************************************************************)
(* C29.  A Job Store read or write that fails is surfaced to the caller    *)
(* and never swallowed: a handler does not report success for a job whose  *)
(* write did not take effect.  A handler that answers 200 with a status    *)
(* has had that status stored by the updateJob call it has just made.      *)
(***************************************************************************)
C29_WriteSurfaced ==
  [][\A h \in Procs :
       (Answers(h) /\ Has(resp'[h], "status")) => ret'[h] # Null]_vars

(***************************************************************************)
(* C30.  scanJobs(pattern) proceeds in batches, terminates, and returns    *)
(* every matching key that exists throughout the scan: a scan that has     *)
(* begun comes to its end, and a key in the store while the scan runs is   *)
(* among the keys returned if it is still there at the end.                *)
(***************************************************************************)
\* the cursor loop of scanJobs is running
Scanning == variant = "redis" /\ sw.pc = "scan"

MetadataFields(job) == IF Has(job, "metadata") THEN DOMAIN job.metadata ELSE {}

C31_MetadataKept ==
  [][\A j \in JobIds :
       (GetJob(j) # Null /\ GetJob(j)' # Null) =>
          /\ GetJob(j)'.jobId = j
          /\ MetadataFields(GetJob(j)) \subseteq MetadataFields(GetJob(j)')]_vars

(***************************************************************************)
(* C32.  The store-level expiry never outlives expiresAt: the time at      *)
(* which the store will drop a key is never later than the expiresAt of    *)
(* the record the key holds.                                               *)
(***************************************************************************)
C32_TtlWithinExpiresAt ==
  \A j \in JobIds :
     (store[j] # Null /\ ttlAt[j] # NoTTL) => ttlAt[j] <= store[j].expiresAt

(***************************************************************************)
(* C33.  Every record in the Job Store carries a store-level TTL in every  *)
(* reachable state, also between the two store calls of createJob and      *)
(* updateJob in the Redis adapter.                                         *)
(***************************************************************************)
C33_AlwaysTtl ==
  \A j \in JobIds : store[j] # Null => ttlAt[j] # NoTTL

WritesDeleted(h, j) ==
  /\ pc[h][1] \in UpdatePhases /\ pc[h][2] = "set"
  /\ pc'[h] # pc[h] /\ variant' = variant
  /\ loc[h].jobId = j
  /\ snap[h] # Null /\ GetJob(j) = Null
  /\ UpdateTtl(UpdatedJob(snap[h], UpdateStatus(pc[h][1]),
                          UpdateData(h, pc[h][1]))) > 0

C35_NoResurrection ==
  [][\A h \in Procs, j \in JobIds :
       WritesDeleted(h, j) => GetJob(j)' = Null]_vars

(***************************************************************************)
(* C36.  The sweeper's decision and its delete apply to the same record:   *)
(* a sweep never deletes a record whose expiresAt, as stored at the moment *)
(* of the delete, is in the future.                                        *)
(***************************************************************************)
\* the record stored for job id j has its expiresAt still ahead
NotYetExpired(j) ==
  /\ Live(j)
  /\ Has(store[j], "expiresAt")
  /\ store[j].expiresAt > now

C36_SweepDeletesChecked ==
  [][\A j \in JobIds :
       (SweepEnds /\ NotYetExpired(j)) => store'[j] # Null]_vars

(***************************************************************************)
(* C37.  The two Job Store adapters are interchangeable: on the same store *)
(* content and clock, an updateJob call gives the same return value, the   *)
(* same stored record and the same expiry with the Vercel KV adapter as    *)
(* with the Redis adapter.                                                 *)
(***************************************************************************)
\* no createJob or updateJob call is between two of its store commands
BetweenCalls == \A h \in Handlers : pc[h][2] \notin {"set", "expire"}

\* C37: between calls, updateJob has the same outcome with either adapter
C37_AdaptersAgree ==
  BetweenCalls =>
  \A j \in JobIds, phase \in UpdatePhases :
     KvUpdateJob(j, UpdateStatus(phase), EmptyObj)
        = RedisUpdateJob(j, UpdateStatus(phase), EmptyObj)

=============================================================================
